---- MODULE Spec2Model ----
(***************************************************************************)
(* Model of the blog API: the three Rocket handlers of handlers.rs and the *)
(* two repositories of repository.rs, over the relational store declared   *)
(* in schema.rs (users, posts, posts_tags).                                *)
(*                                                                         *)
(* Text is a sequence of one-character strings, so that ILIKE and the      *)
(* "%{s}%" pattern are computed character by character.  An Option<T> is   *)
(* a set with at most one element: None is {} and Some(x) is {x}.          *)
(***************************************************************************)
EXTENDS Integers, Sequences, FiniteSets, TLC

(***************************************************************************)
(* Bounds of the model.                                                    *)
(***************************************************************************)
MaxPosts == 2
MaxUsers == 1

(***************************************************************************)
(* Program constants: the defaults of list_posts.                          *)
(***************************************************************************)
DefaultPage == 1
DefaultLimit == 10

VARIABLES
    users,        \* table users: the committed rows
    posts,        \* table posts: the committed rows
    posts_tags,   \* table posts_tags: the committed rows, key (fk_post_id, tag)
    cu,           \* create_user: the handler's last outcome
    cp,           \* create_post: position, request, open transaction, outcome
    lp            \* list_posts: position, parameters, count result, response

vars == <<users, posts, posts_tags, cu, cp, lp>>

Range(s) == {s[i] : i \in DOMAIN s}

(***************************************************************************)
(* SQL NULL in a text column, and the all-NULL users row of a LEFT JOIN    *)
(* that found no user.                                                     *)
(***************************************************************************)
NULL == <<"NULL">>
NullUser == [id |-> 0, username |-> NULL, first_name |-> NULL, last_name |-> NULL]

(***************************************************************************)
(* ILIKE.  LowerChar folds the letters of the alphabet of the inputs; in   *)
(* a LIKE pattern % matches any run of characters, _ any one character and *)
(* backslash quotes the character after it.                                *)
(***************************************************************************)
LowerChar(c) ==
    CASE c = "X" -> "x"
      [] c = "A" -> "a"
      [] c = "L" -> "l"
      [] c = "B" -> "b"
      [] c = "C" -> "c"
      [] c = "D" -> "d"
      [] OTHER -> c

\* two characters agree, letter case ignored when fold is set
SameChar(a, b, fold) == IF fold THEN LowerChar(a) = LowerChar(b) ELSE a = b

\* pattern p from position i on matches text s from position j on
RECURSIVE LikeMatch(_, _, _, _, _)
LikeMatch(p, s, i, j, fold) ==
    IF i > Len(p) THEN j > Len(s)
    ELSE IF p[i] = "%"
        THEN LikeMatch(p, s, i + 1, j, fold)
             \/ (j <= Len(s) /\ LikeMatch(p, s, i, j + 1, fold))
    ELSE IF p[i] = "\\" /\ i < Len(p)
        THEN j <= Len(s) /\ SameChar(s[j], p[i + 1], fold)
             /\ LikeMatch(p, s, i + 2, j + 1, fold)
    ELSE IF p[i] = "_"
        THEN j <= Len(s) /\ LikeMatch(p, s, i + 1, j + 1, fold)
    ELSE j <= Len(s) /\ SameChar(s[j], p[i], fold)
         /\ LikeMatch(p, s, i + 1, j + 1, fold)

\* col ILIKE pat: NULL ILIKE pat is NULL, which WHERE does not accept.
CaseSensitiveLike(col, pat) == col # NULL /\ LikeMatch(pat, col, 1, 1, FALSE)
ILike(col, pat) == col # NULL /\ LikeMatch(pat, col, 1, 1, TRUE)

\* search.map(|s| format!("%{s}%"))
SearchPattern(search) == {<<"%">> \o s \o <<"%">> : s \in search}

(***************************************************************************)
(* FROM posts p LEFT JOIN users u ON p.created_by = u.id                   *)
(*              LEFT JOIN posts_tags pt ON p.id = pt.fk_post_id            *)
(***************************************************************************)
InnerJoinUsers(p) == {u \in users : u.id = p.created_by}
LeftJoinUsers(p) ==
    LET m == {u \in users : u.id = p.created_by}
    IN  IF m = {} THEN {NullUser} ELSE m

LeftJoinTags(p) ==
    LET m == {pt.tag : pt \in {x \in posts_tags : x.fk_post_id = p.id}}
    IN  IF m = {} THEN {NULL} ELSE m

JoinRows ==
    UNION {{[p |-> p, u |-> u, tag |-> t] : u \in LeftJoinUsers(p), t \in LeftJoinTags(p)} :
              p \in posts}

(***************************************************************************)
(* The WHERE clause shared by count_sql and main_sql; $1 is the bound      *)
(* Nullable<Text> pattern.                                                 *)
(***************************************************************************)
Where(r, pattern) ==
    \/ pattern = {}
    \/ \E pat \in pattern :
        \/ ILike(r.p.title, pat)
        \/ ILike(r.p.body, pat)
        \/ ILike(r.u.username, pat)
        \/ ILike(r.u.first_name, pat)
        \/ ILike(r.u.last_name, pat)
        \/ ILike(r.tag, pat)

FilteredRows(pattern) == {r \in JoinRows : Where(r, pattern)}

\* SELECT COUNT(DISTINCT p.id)
CountStar(rows) == Cardinality(rows)
CountDistinct(rows) == Cardinality({r.p.id : r \in rows})
CountQuery(pattern) == CountDistinct(FilteredRows(pattern))

\* i64 division truncates toward zero; the divisor is not zero here.
Abs(n) == IF n < 0 THEN 0 - n ELSE n
TruncDiv(a, b) ==
    IF (a < 0) = (b < 0) THEN Abs(a) \div Abs(b) ELSE 0 - (Abs(a) \div Abs(b))

\* let total_pages = (total_docs + limit - 1) / limit;
TotalPages(total_docs, limit) == TruncDiv(total_docs + limit - 1, limit)

(***************************************************************************)
(* main_sql: GROUP BY the post and user columns, one output row per group, *)
(* COALESCE(ARRAY_AGG(DISTINCT pt.tag) FILTER (WHERE pt.tag IS NOT NULL),  *)
(* '{}') over the rows of the group that passed WHERE.                     *)
(***************************************************************************)
SetToSeq(S) == CHOOSE s \in [1..Cardinality(S) -> S] : Range(s) = S

\* GROUP BY p.id, p.title, p.body, p.created_at, u.id, u.username, ...
GroupByPostAndTag(rows) == {[p |-> r.p, u |-> r.u, tag |-> r.tag] : r \in rows}
GroupBy(rows) == {[p |-> r.p, u |-> r.u] : r \in rows}

\* a row is in the group whose key columns it agrees with
InGroup(r, g) == \A k \in DOMAIN g : r[k] = g[k]

\* the pt.tag column of the group's rows, one entry per row
TagColumn(rows, g) ==
    LET rs == SetToSeq({r \in rows : InGroup(r, g)})
    IN  [i \in DOMAIN rs |-> rs[i].tag]

NotNull(t) == t # NULL
FilterNotNull(seq) == SelectSeq(seq, NotNull)

RECURSIVE Distinct(_)
Distinct(seq) ==
    IF seq = <<>> THEN <<>>
    ELSE LET rest == Distinct(Tail(seq))
         IN  IF Head(seq) \in Range(rest) THEN rest ELSE <<Head(seq)>> \o rest

TagsAgg(rows, g) == Distinct(FilterNotNull(TagColumn(rows, g)))

MainRows(pattern) ==
    LET rows == FilteredRows(pattern)
    IN  {[id |-> g.p.id, title |-> g.p.title, body |-> g.p.body,
          created_at |-> g.p.created_at,
          user_id |-> g.u.id, username |-> g.u.username,
          first_name |-> g.u.first_name, last_name |-> g.u.last_name,
          tags |-> TagsAgg(rows, g)] : g \in GroupBy(rows)}

\* ORDER BY p.created_at DESC: every order of the rows that the clause allows
OrderByCreatedAtDesc(S) ==
    {s \in [1..Cardinality(S) -> S] :
        /\ Range(s) = S
        /\ \A i, j \in DOMAIN s : i < j => s[i].created_at >= s[j].created_at}

\* LIMIT $2 OFFSET $3, both non-negative
Min(a, b) == IF a < b THEN a ELSE b
LimitOffset(s, limit, offset) ==
    IF offset >= Len(s) THEN <<>>
    ELSE SubSeq(s, offset + 1, Min(offset + limit, Len(s)))

(***************************************************************************)
(* Assembly of one PostWithUserAndTags from one PostWithTagsQueryResult.   *)
(***************************************************************************)
Some(col) == IF col = NULL THEN {} ELSE {col}

CreatedByOf(row) ==
    IF row.user_id # NullUser.id /\ row.username # NULL /\ row.first_name # NULL
    THEN {[user_id |-> row.user_id, username |-> row.username,
           first_name |-> row.first_name, last_name |-> Some(row.last_name)]}
    ELSE {}

\* result.tags.into_iter().flatten().collect()
Flatten(tags) == SelectSeq(tags, NotNull)

Assemble(row) ==
    [id |-> row.id, title |-> row.title, body |-> row.body,
     created_by |-> CreatedByOf(row), created_at |-> row.created_at,
     tags |-> Flatten(row.tags)]

MetaFromOffset(offset) == offset
MetaFrom(offset) == offset + 1

PaginationMeta(page, limit, offset, total_docs, total_pages) ==
    [current_page |-> page, per_page |-> limit,
     from |-> MetaFrom(offset), to |-> Min(offset + limit, total_docs),
     total_pages |-> total_pages, total_docs |-> total_docs]

(***************************************************************************)
(* The store's own part in an insert: the generated id and the created_at  *)
(* stamp.  The clock never runs backwards and may read the same instant    *)
(* twice.                                                                  *)
(***************************************************************************)
NewId(table) == Cardinality(table) + 1

Latest == IF posts = {} THEN 1 ELSE CHOOSE t \in {p.created_at : p \in posts} :
                                        \A p \in posts : p.created_at <= t
ClockReadings == IF posts = {} THEN {1} ELSE {Latest, Latest + 1}

\* inside conn.transaction an insert is not in the committed table before COMMIT
Autocommit(table, rows) == table \cup rows
InTransaction(table, rows) == table

(***************************************************************************)
(* State after construction: an empty database, no request in flight.      *)
(***************************************************************************)
NoRequest == [title |-> <<>>, body |-> <<>>, created_by |-> 0, tags |-> <<>>]
CpIdle == [pc |-> "idle", req |-> NoRequest, tx_post |-> {}, out |-> "none"]
CpDone(out) == [CpIdle EXCEPT !.pc = "done", !.out = out]
NoMeta == [current_page |-> 0, per_page |-> 0, from |-> 0, to |-> 0,
           total_pages |-> 0, total_docs |-> 0]
LpIdle ==
    [pc |-> "idle", page |-> 0, limit |-> 0, search |-> {},
     total_docs |-> 0, total_pages |-> 0, counted_at |-> 0, fetched_at |-> 0,
     out |-> "none", records |-> <<>>, meta |-> NoMeta]
LpDone(out, page, limit, search) ==
    [pc |-> "done", page |-> page, limit |-> limit, search |-> search,
     total_docs |-> 0, total_pages |-> 0, counted_at |-> 0, fetched_at |-> 0,
     out |-> out, records |-> <<>>, meta |-> NoMeta]

Init ==
    /\ users = {}
    /\ posts = {}
    /\ posts_tags = {}
    /\ cu = "none"
    /\ cp = CpIdle
    /\ lp = LpIdle

(***************************************************************************)
(* create_user: pool.get().expect(..), then UserRepository::create.        *)
(* fault names what fails in the request: nothing, the pool, or the store. *)
(***************************************************************************)
UserCreate(new_user, fault) ==
    IF fault = "db"
    THEN /\ users' = users
         /\ cu' = "err"
    ELSE /\ users' = users \cup {[id |-> NewId(users), username |-> new_user.username,
                                  first_name |-> new_user.first_name,
                                  last_name |-> new_user.last_name]}
         /\ cu' = "ok"

create_user(user_data, fault) ==
    /\ Cardinality(users) < MaxUsers
    /\ IF fault = "pool"
       THEN cu' = "panic" /\ users' = users
       ELSE UserCreate(user_data, fault)
    /\ UNCHANGED <<posts, posts_tags, cp, lp>>

(***************************************************************************)
(* create_post: pool.get().expect(..), then create_with_tags, which        *)
(* inserts the post and then the tags inside one conn.transaction.         *)
(***************************************************************************)
\* BEGIN; INSERT INTO posts ... RETURNING *
create_post_insert_post(post_data, fault) ==
    /\ cp.pc = "idle"
    /\ Cardinality(posts) < MaxPosts
    /\ IF fault = "pool"
       THEN cp' = CpDone("panic") /\ posts' = posts
       ELSE IF fault = "db"
       THEN cp' = CpDone("err") /\ posts' = posts
       ELSE \E t \in ClockReadings :
              LET post == [id |-> NewId(posts), title |-> post_data.title,
                           body |-> post_data.body,
                           created_by |-> post_data.created_by, created_at |-> t]
              IN  /\ cp' = [pc |-> "insert_tags", req |-> post_data,
                            tx_post |-> {post}, out |-> "none"]
                  /\ posts' = InTransaction(posts, {post})
    /\ UNCHANGED <<users, posts_tags, cu, lp>>

\* Vec<NewPostTag>: one row per element of tags, in order
NewPostTags(post, tags) == [i \in DOMAIN tags |-> [fk_post_id |-> post.id, tag |-> tags[i]]]

\* the composite primary key (fk_post_id, tag) rejects a repeated row
ViolatesPrimaryKey(rows) ==
    \/ \E i, j \in DOMAIN rows : i # j /\ rows[i] = rows[j]
    \/ \E i \in DOMAIN rows : rows[i] \in posts_tags

\* INSERT INTO posts_tags (if any); then Ok(post) and COMMIT, or Err and ROLLBACK
create_post_insert_tags(fault) ==
    /\ cp.pc = "insert_tags"
    /\ LET post == CHOOSE p \in cp.tx_post : TRUE
           post_tags == NewPostTags(post, cp.req.tags)
       IN  IF fault # "db" /\ (cp.req.tags = <<>> \/ ~ViolatesPrimaryKey(post_tags))
           THEN /\ posts' = posts \cup {post}
                /\ posts_tags' = posts_tags \cup Range(post_tags)
                /\ cp' = [cp EXCEPT !.pc = "done", !.out = "ok"]
           ELSE /\ UNCHANGED <<posts, posts_tags>>
                /\ cp' = [cp EXCEPT !.pc = "done", !.out = "err"]
    /\ UNCHANGED <<users, cu, lp>>

\* the handler returns its Json (or its task has aborted); the request is over
create_post_return ==
    /\ cp.pc = "done"
    /\ cp' = CpIdle
    /\ UNCHANGED <<users, posts, posts_tags, cu, lp>>

(***************************************************************************)
(* list_posts: pool.get().expect(..), then find_with_user_and_tags: the    *)
(* count query, total_pages, and (a second statement) the main query.      *)
(***************************************************************************)
UnwrapOr(opt, default) == IF opt = {} THEN default ELSE CHOOSE x \in opt : TRUE

Offset(page, limit) == (page - 1) * limit

\* rows only ever get added, so the row count tells one committed state from the next
StoreVersion == Cardinality(posts) + Cardinality(users)

list_posts_count(pageOpt, limitOpt, search, fault) ==
    /\ lp.pc = "idle"
    /\ LET page == UnwrapOr(pageOpt, DefaultPage)
           limit == UnwrapOr(limitOpt, DefaultLimit)
           total_docs == CountQuery(SearchPattern(search))
       IN  IF fault = "pool" THEN lp' = LpDone("panic", page, limit, search)
           ELSE IF fault = "db" THEN lp' = LpDone("err", page, limit, search)
           ELSE IF limit = 0 THEN lp' = LpDone("panic", page, limit, search)
           ELSE \E n \in {total_docs} :
                  lp' = [LpDone("none", page, limit, search) EXCEPT
                            !.pc = "fetch", !.total_docs = n,
                            !.total_pages = TotalPages(n, limit),
                            !.counted_at = StoreVersion]
    /\ UNCHANGED <<users, posts, posts_tags, cu, cp>>

list_posts_fetch(fault) ==
    /\ lp.pc = "fetch"
    /\ LET offset == Offset(lp.page, lp.limit)
       IN  IF fault = "db" \/ lp.limit < 0 \/ offset < 0
           THEN lp' = LpDone("err", lp.page, lp.limit, lp.search)
           ELSE \E ord \in OrderByCreatedAtDesc(MainRows(SearchPattern(lp.search))) :
                  LET results == LimitOffset(ord, lp.limit, offset)
                  IN  lp' = [lp EXCEPT
                               !.pc = "done", !.out = "ok",
                               !.fetched_at = StoreVersion,
                               !.records = [i \in DOMAIN results |-> Assemble(results[i])],
                               !.meta = PaginationMeta(lp.page, lp.limit, offset,
                                                       lp.total_docs, lp.total_pages)]
    /\ UNCHANGED <<users, posts, posts_tags, cu, cp>>

\* the handler returns its Json (or its task has aborted); the request is over
list_posts_return ==
    /\ lp.pc = "done"
    /\ lp' = LpIdle
    /\ UNCHANGED <<users, posts, posts_tags, cu, cp>>

(***************************************************************************)
(* Requests.  One user; a post without tags whose author does not exist;   *)
(* a post with two tags by user 1; a post whose tags repeat.               *)
(***************************************************************************)
NewUsers ==
    {[username |-> <<"a", "l">>, first_name |-> <<"D">>, last_name |-> <<"x", "C">>]}

NewPostsWithTags ==
    {[title |-> <<"x", "A">>, body |-> <<"l">>, created_by |-> MaxUsers + 1,
      tags |-> <<>>],
     [title |-> <<"x">>, body |-> <<"x">>, created_by |-> 1,
      tags |-> << <<"b">>, <<"a", "b">> >>],
     [title |-> <<"x">>, body |-> <<"x">>, created_by |-> 1,
      tags |-> << <<"b">>, <<"b">> >>]}

Searches ==
    {{}, {<<"A">>}, {<<"l">>}, {<<"b">>}, {<<"c">>}, {<<"d">>}, {<<"_">>}}
Faults == {"none", "pool", "db"}
NoFaults == {"none"}
AnyPages == {{}} \cup {{n} : n \in 0..(MaxPosts + 1)}
AnyLimits == {{}} \cup {{n} : n \in (0 - 1)..MaxPosts}
ValidPages == {{n} : n \in 1..(MaxPosts + 1)}
ValidLimits == {{}} \cup {{n} : n \in 1..MaxPosts}

NextWith(pages, limits, searches, faults) ==
    \/ \E u \in NewUsers, f \in faults : create_user(u, f)
    \/ \E r \in NewPostsWithTags, f \in faults : create_post_insert_post(r, f)
    \/ \E f \in faults : create_post_insert_tags(f)
    \/ create_post_return
    \/ \E page \in pages, limit \in limits, search \in searches, f \in faults :
          list_posts_count(page, limit, search, f)
    \/ \E f \in faults : list_posts_fetch(f)
    \/ list_posts_return

\* every request, every fault
Next == NextWith(AnyPages, AnyLimits, {{}}, Faults)
Spec == Init /\ [][Next]_vars

\* the write path under faults, read by the default listing
NextWrite == NextWith({{}}, {{}}, {{}}, Faults)
SpecWrite == Init /\ [][NextWrite]_vars

\* every search term on the default page, nothing failing
NextSearch == NextWith({{}}, {{}}, Searches, NoFaults)
SpecSearch == Init /\ [][NextSearch]_vars

\* every valid page and limit, nothing failing
NextPage == NextWith(ValidPages, ValidLimits, {{}, {<<"b">>}}, NoFaults)
SpecPage == Init /\ [][NextPage]_vars

(***************************************************************************)
(* What the properties are stated against: the committed tables read post  *)
(* by post, with no join.                                                  *)
(***************************************************************************)
AuthorOf(p) == {u \in users : u.id = p.created_by}
TagsOf(id) == {pt.tag : pt \in {x \in posts_tags : x.fk_post_id = id}}
PostsWithId(id) == {p \in posts : p.id = id}

\* t occurs in s, letter case ignored
Contains(s, t) ==
    \E i \in 0..(Len(s) - Len(t)) :
        \A k \in 1..Len(t) : LowerChar(s[i + k]) = LowerChar(t[k])

MatchesBySubstring(p, search) ==
    \/ search = {}
    \/ \E t \in search :
        \/ Contains(p.title, t)
        \/ Contains(p.body, t)
        \/ \E u \in AuthorOf(p) :
              Contains(u.username, t) \/ Contains(u.first_name, t) \/ Contains(u.last_name, t)
        \/ \E g \in TagsOf(p.id) : Contains(g, t)

MatchesByPattern(p, search) ==
    \/ search = {}
    \/ \E t \in search :
        LET pat == <<"%">> \o t \o <<"%">>
        IN  \/ ILike(p.title, pat)
            \/ ILike(p.body, pat)
            \/ \E u \in AuthorOf(p) :
                  ILike(u.username, pat) \/ ILike(u.first_name, pat) \/ ILike(u.last_name, pat)
            \/ \E g \in TagsOf(p.id) : ILike(g, pat)

HasLikeMetacharacter(search) ==
    \E t \in search : \E i \in DOMAIN t : t[i] \in {"%", "_", "\\"}

Ceiling(a, b) == CHOOSE k \in 0..a : k * b >= a /\ (k - 1) * b < a
AtLeastZero(n) == IF n < 0 THEN 0 ELSE n
Smaller(a, b) == IF a <= b THEN a ELSE b

\* list_posts has answered with the success envelope
Listed == lp.pc = "done" /\ lp.out = "ok"
\* ... and no write was committed between its count query and its main query
ListedStable == Listed /\ lp.counted_at = lp.fetched_at
\* ... and none since, so that the tables are those the queries read
ListedNow == Listed /\ lp.fetched_at = StoreVersion
RecordIds == {lp.records[i].id : i \in DOMAIN lp.records}

\* the call of create_with_tags that cp holds has inserted its post row
CallPostId == (CHOOSE p \in cp.tx_post : TRUE).id
CallRowsPresent ==
    /\ cp.tx_post \subseteq posts
    /\ TagsOf(CallPostId) = Range(cp.req.tags)
    /\ Cardinality(TagsOf(CallPostId)) = Len(cp.req.tags)
CallRowsAbsent == PostsWithId(CallPostId) = {} /\ TagsOf(CallPostId) = {}

(***************************************************************************)
(* C1.  create_with_tags is all-or-nothing: in every committed state the   *)
(* post row of a call and one posts_tags row per supplied tag all exist,   *)
(* or none of them does; while the transaction is open and after the call  *)
(* returned an error (a fault or a repeated tag at the tag insert) none of *)
(* them exists, after it returned Ok all do; no tag row is without its     *)
(* post.                                                                   *)
(***************************************************************************)
C1_AtomicCreate ==
    /\ \A pt \in posts_tags : PostsWithId(pt.fk_post_id) # {}
    /\ cp.tx_post # {} =>
        /\ CallRowsPresent \/ CallRowsAbsent
        /\ cp.pc = "insert_tags" => CallRowsAbsent
        /\ cp.out = "err" => CallRowsAbsent
        /\ cp.out = "ok" => CallRowsPresent

\* the tag insert failed after the post insert succeeded, on a store that has a post
C1_Witness ==
    /\ cp.pc = "done" /\ cp.out = "err" /\ cp.tx_post # {}
    /\ Len(cp.req.tags) = 2
    /\ posts # {}

(***************************************************************************)
(* C2.  Tag completeness: every record of a listing carries exactly the    *)
(* tags its post was created with, each once and none of them NULL,        *)
(* whatever the search term.                                               *)
(***************************************************************************)
C2_TagCompleteness ==
    ListedNow =>
        \A i \in DOMAIN lp.records :
            LET tags == lp.records[i].tags
            IN  /\ Range(tags) = TagsOf(lp.records[i].id)
                /\ Len(tags) = Cardinality(Range(tags))
                /\ NULL \notin Range(tags)

(***************************************************************************)
(* C3.  Pagination consistency: when the store did not change during the   *)
(* call, meta.total_docs is the number of posts that satisfy the filter,   *)
(* each counted once, and meta.total_pages is ceil(total_docs / limit).    *)
(***************************************************************************)
C3_PaginationConsistency ==
    (ListedStable /\ ListedNow /\ lp.page >= 1 /\ lp.limit >= 1) =>
        /\ lp.meta.total_docs = Cardinality({p \in posts : MatchesByPattern(p, lp.search)})
        /\ lp.meta.total_pages = Ceiling(lp.meta.total_docs, lp.limit)

\* two posts match, each through two of its tags; limit 1 gives two pages
C3_Witness ==
    /\ ListedStable /\ ListedNow
    /\ lp.search = {<<"b">>} /\ lp.limit = 1
    /\ lp.meta.total_docs = 2 /\ lp.meta.total_pages = 2
    /\ \E p \in posts : Cardinality({g \in TagsOf(p.id) : Contains(g, <<"b">>)}) = 2

(***************************************************************************)
(* C4.  No duplication: no post id occurs twice in the records of a        *)
(* listing, and page 1 with a limit of at least the number of matching     *)
(* posts holds every matching post.                                        *)
(***************************************************************************)
C4_NoDuplication ==
    Listed =>
        /\ \A i, j \in DOMAIN lp.records :
              lp.records[i].id = lp.records[j].id => i = j
        /\ LET matching == {p.id : p \in {q \in posts : MatchesByPattern(q, lp.search)}}
           IN  (ListedNow /\ lp.page = 1 /\ lp.limit >= Cardinality(matching)) =>
                  RecordIds = matching

\* a page with two records, one of a post with two tags whose author exists
C4_Witness ==
    /\ ListedNow /\ Len(lp.records) = 2
    /\ \E i \in DOMAIN lp.records :
          Len(lp.records[i].tags) = 2 /\ lp.records[i].created_by # {}

(***************************************************************************)
(* C5.  Search matching, as claimed: the posts listed (default page, all   *)
(* fit) are exactly those in which the term occurs as a case-insensitive   *)
(* substring of title, body, an author column or a tag.                    *)
(***************************************************************************)
C5_SearchMatchingAsClaimed ==
    ListedNow => RecordIds = {p.id : p \in {q \in posts : MatchesBySubstring(q, lp.search)}}

(***************************************************************************)
(* C5, amended.  The same for a search term that holds none of the LIKE    *)
(* metacharacters %, _ and backslash.                                      *)
(***************************************************************************)
C5_SearchMatching ==
    (ListedNow /\ ~HasLikeMetacharacter(lp.search)) =>
        RecordIds = {p.id : p \in {q \in posts : MatchesBySubstring(q, lp.search)}}

\* of two posts only one is listed, matched through its author's first name alone
C5_Witness ==
    /\ ListedNow /\ lp.search = {<<"d">>}
    /\ Cardinality(posts) = 2 /\ Len(lp.records) = 1
    /\ lp.records[1].created_by # {}

(***************************************************************************)
(* C6.  Pagination metadata: current_page = page, per_page = limit,        *)
(* from = offset + 1, to = min(offset + limit, total_docs); on a store     *)
(* that did not change during the call the page holds the records          *)
(* offset+1 .. to, so a page past the last one is empty with               *)
(* to = total_docs.                                                        *)
(***************************************************************************)
C6_PaginationMeta ==
    (Listed /\ lp.page >= 1 /\ lp.limit >= 1) =>
        LET offset == (lp.page - 1) * lp.limit
            total == lp.meta.total_docs
        IN  /\ lp.meta.current_page = lp.page
            /\ lp.meta.per_page = lp.limit
            /\ lp.meta.from = offset + 1
            /\ lp.meta.to = Smaller(offset + lp.limit, total)
            /\ ListedStable =>
                  /\ Len(lp.records) = AtLeastZero(Smaller(lp.limit, total - offset))
                  /\ offset >= total => lp.records = <<>> /\ lp.meta.to = total

\* page 2 of one post, one per page: empty, and from = 2 exceeds total_docs = 1
C6_Witness ==
    /\ ListedStable /\ lp.page = 2 /\ lp.limit = 1
    /\ lp.meta.total_docs = 1 /\ lp.meta.total_pages = 1
    /\ lp.records = <<>> /\ lp.meta.from = 2 /\ lp.meta.to = 1

(***************************************************************************)
(* C7.  Dangling author tolerance: every post that satisfies the filter is *)
(* listed (default page, all fit), with created_by = None when its         *)
(* created_by id has no users row and with that row's id, username, first  *)
(* name and last name when it has.                                         *)
(***************************************************************************)
C7_DanglingAuthor ==
    ListedNow =>
        \A p \in {q \in posts : MatchesByPattern(q, lp.search)} :
            \E i \in DOMAIN lp.records :
                /\ lp.records[i].id = p.id
                /\ AuthorOf(p) = {} => lp.records[i].created_by = {}
                /\ \A u \in AuthorOf(p) :
                      lp.records[i].created_by =
                          {[user_id |-> u.id, username |-> u.username,
                            first_name |-> u.first_name, last_name |-> {u.last_name}]}

\* one listing with a post whose author is missing and a post whose author exists
C7_Witness ==
    /\ ListedNow /\ users # {}
    /\ \E i, j \in DOMAIN lp.records :
          lp.records[i].created_by = {} /\ lp.records[j].created_by # {}

(***************************************************************************)
(* C8.  No request crashes its handling task: create_user, create_post and *)
(* list_posts always answer with the success envelope or the error         *)
(* envelope, whatever the parameters (limit = 0 too) and whatever fails in *)
(* the pool or the store.                                                  *)
(***************************************************************************)
C8_NoHandlerPanics ==
    /\ cu \in {"none", "ok", "err"}
    /\ cp.out \in {"none", "ok", "err"}
    /\ lp.out \in {"none", "ok", "err"}

(***************************************************************************)
(* C9.  Ordering: the records of a page are sorted by created_at           *)
(* descending, and records of equal created_at in insertion order of their *)
(* ids.                                                                    *)
(***************************************************************************)
C9_Ordering ==
    Listed =>
        \A i, j \in DOMAIN lp.records : i < j =>
            \/ lp.records[i].created_at > lp.records[j].created_at
            \/ /\ lp.records[i].created_at = lp.records[j].created_at
               /\ lp.records[i].id < lp.records[j].id

(***************************************************************************)
(* C10.  Count/fetch consistency under concurrent writers: the records and *)
(* the meta of a response describe one store snapshot; the number of       *)
(* records is max(0, to - from + 1) and at most what total_docs leaves     *)
(* after the offset.                                                       *)
(***************************************************************************)
C10_CountFetchConsistent ==
    Listed =>
        /\ Len(lp.records) = AtLeastZero(lp.meta.to - lp.meta.from + 1)
        /\ Len(lp.records) <= AtLeastZero(lp.meta.total_docs - (lp.page - 1) * lp.limit)
====
